---- MODULE Spec2Model ----
(***************************************************************************)
(* The reorganize_modules transform of rust-refactor                       *)
(* (src/rust-refactor/src/transform/modules.rs) as a state machine: one    *)
(* action per whole-tree pass of ReorganizeModules::transform, the syntax  *)
(* tree as nested records, identifiers and string literals as tuples of    *)
(* characters so that `contains` is a real substring test.                 *)
(***************************************************************************)
EXTENDS Integers, Sequences, FiniteSets, TLC

VARIABLES
    input,              \* the crate handed to this run of the transform
    sess,               \* the session: local_crate_source_file
    krate,              \* the crate value threaded through the passes
    mod_info,           \* ModuleInformation
    new_module_decls,   \* destination NodeId -> Vec<NodeId>
    dest_mod_name,      \* NodeId of a tested candidate -> the name match_modules compared with
    pc,                 \* the pass that runs next
    run                 \* "first", or "again" when the input is a previous output

vars == <<input, sess, krate, mod_info, new_module_decls, dest_mod_name, pc, run>>

----------------------------------------------------------------------------
(* Strings: tuples of characters.                                          *)

S_empty == <<>>
S_foo == <<"f", "o", "o">>
S_fo == <<"f", "o">>
S_foo_h == <<"f", "o", "o", "_", "h">>
S_bar_h == <<"b", "a", "r", "_", "h">>
S_stdlib == <<"s", "t", "d", "l", "i", "b">>
S_buffer_t == <<"b", "u", "f", "f", "e", "r", "_", "t">>
S_size_t == <<"s", "i", "z", "e", "_", "t">>
S_widget == <<"w", "i", "d", "g", "e", "t">>
S_puts == <<"p", "u", "t", "s">>
S_getc == <<"g", "e", "t", "c">>
S_bar == <<"b", "a", "r">>
S_source_header == <<"s", "o", "u", "r", "c", "e", "_", "h", "e", "a", "d", "e", "r">>
S_usr_include == <<"/", "u", "s", "r", "/", "i", "n", "c", "l", "u", "d", "e">>
S_stddef == <<"s", "t", "d", "d", "e", "f">>
S_vararg == <<"v", "a", "r", "a", "r", "g">>
S_self == <<"s", "e", "l", "f">>
S_super == <<"s", "u", "p", "e", "r">>
S_not == <<"n", "o", "t">>
S_foo_h_path == <<"f", "o", "o", ".", "h">>
S_stdio_h_path == <<"/", "u", "s", "r", "/", "i", "n", "c", "l", "u", "d", "e", "/", "s", "t", "d", "i", "o", ".", "h">>
S_src_foo_rs == <<"s", "r", "c", "/", "f", "o", "o", ".", "r", "s">>
S_foo_rs == <<"f", "o", "o", ".", "r", "s">>

\* str::contains: t occurs in s as a contiguous substring.
contains(s, t) ==
    \E k \in 0..(Len(s) - Len(t)) : SubSeq(s, k + 1, k + Len(t)) = t

----------------------------------------------------------------------------
(* Attributes: token trees.                                                *)

TokIdent(s) == [tt |-> "Token", token |-> "Ident", s |-> s]
TokStr(s) == [tt |-> "Token", token |-> "Literal", lit |-> "Str_", s |-> s]
TokEq == [tt |-> "Token", token |-> "Eq"]
Delimited(stream) == [tt |-> "Delimited", stream |-> stream]
Attribute(tokens) == [tokens |-> tokens]

RECURSIVE parse_token_tree_source_header(_)
parse_token_tree_source_header(tree) ==
    IF tree.tt = "Delimited"
    THEN \E k \in 1..Len(tree.stream) : parse_token_tree_source_header(tree.stream[k])
    ELSE tree.token = "Ident" /\ contains(tree.s, S_source_header)

has_source_header(attrs) ==
    \E a \in 1..Len(attrs) : \E k \in 1..Len(attrs[a].tokens) :
        parse_token_tree_source_header(attrs[a].tokens[k])

RECURSIVE parse_token_tree_std(_)
parse_token_tree_std(tree) ==
    IF tree.tt = "Delimited"
    THEN \E k \in 1..Len(tree.stream) : parse_token_tree_std(tree.stream[k])
    ELSE /\ tree.token = "Literal"
         /\ tree.lit = "Str_"
         /\ \/ contains(tree.s, S_usr_include)
            \/ contains(tree.s, S_stddef)
            \/ contains(tree.s, S_vararg)

is_std(attrs) ==
    \E a \in 1..Len(attrs) : \E k \in 1..Len(attrs[a].tokens) :
        parse_token_tree_std(attrs[a].tokens[k])

----------------------------------------------------------------------------
(* Items.  node is the ItemKind; Mod holds Items, ForeignMod holds         *)
(* ForeignItems, Use holds the use tree's prefix path, every other kind    *)
(* holds its structural content (body) and the paths it refers to.         *)

EmptyMap == [x \in {} |-> x]

insert(m, k, v) == [x \in DOMAIN m \cup {k} |-> IF x = k THEN v ELSE m[x]]

IsMod(i) == i.node.kind = "Mod"

\* AstEquiv on ItemKind: NodeId and Span are ignored, everything else compared.
RECURSIVE ast_equiv(_, _)
ast_equiv(a, b) ==
    /\ a.kind = b.kind
    /\ CASE a.kind = "Mod" ->
              /\ Len(a.items) = Len(b.items)
              /\ \A k \in 1..Len(a.items) :
                    /\ a.items[k].ident = b.items[k].ident
                    /\ a.items[k].attrs = b.items[k].attrs
                    /\ a.items[k].vis = b.items[k].vis
                    /\ ast_equiv(a.items[k].node, b.items[k].node)
         [] a.kind = "ForeignMod" ->
              /\ Len(a.items) = Len(b.items)
              /\ \A k \in 1..Len(a.items) :
                    /\ a.items[k].ident = b.items[k].ident
                    /\ a.items[k].body = b.items[k].body
         [] a.kind = "Use" -> a.prefix = b.prefix
         [] OTHER -> a.body = b.body /\ a.paths = b.paths

\* visit_nodes / Visitor::visit_item: every Item, a parent before its children.
RECURSIVE items_preorder(_)
items_preorder(items) ==
    IF items = <<>> THEN <<>>
    ELSE LET h == Head(items)
         IN  <<h>> \o (IF IsMod(h) THEN items_preorder(h.node.items) ELSE <<>>)
                   \o items_preorder(Tail(items))

\* A HashMap filled by inserting seq's items in order, keyed by their id.
item_map_of(seq) ==
    [id \in {seq[k].id : k \in DOMAIN seq} |->
        seq[CHOOSE k \in DOMAIN seq :
                /\ seq[k].id = id
                /\ \A j \in DOMAIN seq : seq[j].id = id => j <= k]]

\* fold_nodes over Path: f[p] replaces every path p of the tree.
RECURSIVE fold_paths(_, _)
fold_paths(items, f) ==
    [k \in 1..Len(items) |->
        LET i == items[k]
        IN  CASE i.node.kind = "Mod" ->
                    [i EXCEPT !.node.items = fold_paths(i.node.items, f)]
              [] i.node.kind = "Use" ->
                    [i EXCEPT !.node.prefix = f[i.node.prefix]]
              [] i.node.kind = "ForeignMod" -> i
              [] OTHER ->
                    [i EXCEPT !.node.paths =
                        [j \in 1..Len(i.node.paths) |-> f[i.node.paths[j]]]]]

RECURSIVE all_paths(_)
all_paths(items) ==
    IF items = <<>> THEN {}
    ELSE LET i == Head(items)
             here == CASE i.node.kind = "Mod" -> all_paths(i.node.items)
                       [] i.node.kind = "Use" -> {i.node.prefix}
                       [] i.node.kind = "ForeignMod" -> {}
                       [] OTHER -> {i.node.paths[j] : j \in 1..Len(i.node.paths)}
         IN  here \cup all_paths(Tail(items))

----------------------------------------------------------------------------
(* Pass 1: cleanse the paths of the super or self prefix.                  *)

cleanse_path(p) ==
    IF Len(p) > 1
    THEN SelectSeq(p, LAMBDA s : ~(s = S_super \/ s = S_self))
    ELSE p

cleanse(k) ==
    [module |-> [items |->
        fold_paths(k.module.items,
                   [p \in all_paths(k.module.items) |-> cleanse_path(p)])]]

----------------------------------------------------------------------------
(* Pass 2: snapshot and match.                                             *)

ModuleInformation_new(id) ==
    [item_map |-> EmptyMap,
     decl_destination_mod |-> EmptyMap,
     new_names |-> EmptyMap,
     stdlib_id |-> id]

visit_item(k, mi) ==
    [mi EXCEPT !.item_map = item_map_of(items_preorder(k.module.items))]

get_source_file(s) == s.local_crate_source_file

\* The name a destination candidate is compared under.
candidate_name(i, s) ==
    IF i.ident = S_empty THEN get_source_file(s) ELSE i.ident

\* The candidates the inner visit_nodes of match_modules tests, in visit order.
candidates(k) ==
    SelectSeq(items_preorder(k.module.items),
              LAMBDA i : IsMod(i) /\ ~has_source_header(i.attrs))

\* The two inserts of a match: the destination of the item, the rename of its module.
record(mi, old_mod_item_id, old_ident, dest_id, new_ident) ==
    [mi EXCEPT !.decl_destination_mod = insert(@, old_mod_item_id, dest_id),
               !.new_names = insert(@, old_ident, new_ident)]

\* The candidates whose name the identifier of old_mod contains, in visit order.
matched(k, old_mod, s) ==
    SelectSeq(candidates(k), LAMBDA i : contains(old_mod.ident, candidate_name(i, s)))

\* a match_modules that looks for the source header before the standard library
match_modules_header_first(k, old_mod_item_id, old_mod_id, mi, s) ==
    IF old_mod_id \notin DOMAIN mi.item_map THEN mi
    ELSE LET old_mod == mi.item_map[old_mod_id]
             m == matched(k, old_mod, s)
         IN  IF has_source_header(old_mod.attrs)
             THEN IF m # <<>>
                  THEN record(mi, old_mod_item_id, old_mod.ident,
                              m[Len(m)].id, candidate_name(m[Len(m)], s))
                  ELSE mi
             ELSE IF is_std(old_mod.attrs)
             THEN record(mi, old_mod_item_id, old_mod.ident, mi.stdlib_id, S_stdlib)
             ELSE mi

\* Every insert of the scan overwrites the one before: the last match stands.
match_modules(k, old_mod_item_id, old_mod_id, mi, s) ==
    IF old_mod_id \notin DOMAIN mi.item_map THEN mi
    ELSE LET old_mod == mi.item_map[old_mod_id]
             m == matched(k, old_mod, s)
         IN  IF is_std(old_mod.attrs)
             THEN record(mi, old_mod_item_id, old_mod.ident, mi.stdlib_id, S_stdlib)
             ELSE IF has_source_header(old_mod.attrs) /\ m # <<>>
             THEN record(mi, old_mod_item_id, old_mod.ident,
                         m[Len(m)].id, candidate_name(m[Len(m)], s))
             ELSE mi

\* The (module_item.id, item.id) pairs of the outer visit_nodes, in visit order.
RECURSIVE module_item_pairs(_)
module_item_pairs(seq) ==
    IF seq = <<>> THEN <<>>
    ELSE LET item == Head(seq)
         IN  (IF IsMod(item)
              THEN [j \in 1..Len(item.node.items) |-> <<item.node.items[j].id, item.id>>]
              ELSE <<>>) \o module_item_pairs(Tail(seq))

RECURSIVE match_all(_, _, _, _)
match_all(pairs, k, mi, s) ==
    IF pairs = <<>> THEN mi
    ELSE match_all(Tail(pairs), k,
                   match_modules(k, Head(pairs)[1], Head(pairs)[2], mi, s), s)

\* dest_mod_name of every candidate tested for some header container.
tested_names(k, mi, s) ==
    LET pairs == module_item_pairs(items_preorder(k.module.items))
        tests == \E j \in 1..Len(pairs) :
                    LET old_mod == mi.item_map[pairs[j][2]]
                    IN  ~is_std(old_mod.attrs) /\ has_source_header(old_mod.attrs)
        c == candidates(k)
    IN  IF tests THEN [id \in {c[j].id : j \in 1..Len(c)} |->
                          candidate_name(mi.item_map[id], s)]
        ELSE EmptyMap

----------------------------------------------------------------------------
(* Pass 3: the merge plan.                                                 *)

\* a clean_module_items that never finds the item in the destination
is_match_never(dest_mod, old_item) == FALSE

\* is_match of clean_module_items: the destination already holds an equivalent item.
is_match(dest_mod, old_item) ==
    \E k \in 1..Len(dest_mod.items) : ast_equiv(dest_mod.items[k].node, old_item.node)

dest_vec(mi, old_item_id, dest_mod_id) ==
    LET has_old == old_item_id \in DOMAIN mi.item_map
        has_dest == dest_mod_id \in DOMAIN mi.item_map
    IN  IF has_dest /\ has_old
        THEN IF is_match(mi.item_map[dest_mod_id].node, mi.item_map[old_item_id])
             THEN <<>> ELSE <<old_item_id>>
        ELSE IF ~has_dest /\ has_old THEN <<old_item_id>>
        ELSE <<>>

\* The loop of clean_module_items over decl_destination_mod, taken in `order`.
RECURSIVE clean_loop(_, _, _)
clean_loop(order, mi, dest_items_map) ==
    IF order = <<>> THEN dest_items_map
    ELSE LET old_item_id == Head(order)
             dest_mod_id == mi.decl_destination_mod[old_item_id]
             v == dest_vec(mi, old_item_id, dest_mod_id)
         IN  clean_loop(Tail(order), mi,
                IF dest_mod_id \notin DOMAIN dest_items_map
                THEN insert(dest_items_map, dest_mod_id, v)
                ELSE [dest_items_map EXCEPT ![dest_mod_id] = @ \o v])

remove_first(seq, x) ==
    LET index == CHOOSE k \in 1..Len(seq) :
                    seq[k] = x /\ \A j \in 1..(k - 1) : seq[j] # x
    IN  SubSeq(seq, 1, index - 1) \o SubSeq(seq, index + 1, Len(seq))

\* a retain closure that never takes the dropped item out of the cloned list
RECURSIVE retain_loop_no_removal(_, _, _)
retain_loop_no_removal(ids, cloned_item_ids, item_map) ==
    IF ids = <<>> THEN <<>>
    ELSE LET item_id == Head(ids)
             dup == \E k \in 1..Len(cloned_item_ids) :
                       /\ cloned_item_ids[k] # item_id
                       /\ ast_equiv(item_map[item_id].node,
                                    item_map[cloned_item_ids[k]].node)
         IN  IF dup
             THEN retain_loop_no_removal(Tail(ids), cloned_item_ids, item_map)
             ELSE <<item_id>> \o retain_loop_no_removal(Tail(ids), cloned_item_ids, item_map)

\* The retain closure of remove_duplicates over one destination's list.
RECURSIVE retain_loop(_, _, _)
retain_loop(ids, cloned_item_ids, item_map) ==
    IF ids = <<>> THEN <<>>
    ELSE LET item_id == Head(ids)
             dup == \E k \in 1..Len(cloned_item_ids) :
                       /\ cloned_item_ids[k] # item_id
                       /\ ast_equiv(item_map[item_id].node,
                                    item_map[cloned_item_ids[k]].node)
         IN  IF dup
             THEN retain_loop(Tail(ids), remove_first(cloned_item_ids, item_id), item_map)
             ELSE <<item_id>> \o retain_loop(Tail(ids), cloned_item_ids, item_map)

\* a remove_duplicates that keeps every listed item
remove_duplicates_none(dest_items_map, item_map) == dest_items_map

remove_duplicates(dest_items_map, item_map) ==
    [d \in DOMAIN dest_items_map |->
        retain_loop(dest_items_map[d], dest_items_map[d], item_map)]

clean_module_items(mi, order) ==
    remove_duplicates(clean_loop(order, mi, EmptyMap), mi.item_map)

\* The orders in which a HashMap may yield the keys of m.
iteration_orders(m) ==
    {o \in [1..Cardinality(DOMAIN m) -> DOMAIN m] :
        \A a, b \in 1..Cardinality(DOMAIN m) : a # b => o[a] # o[b]}

----------------------------------------------------------------------------
(* Pass 4: the `old module` items get moved into the `new modules`.        *)

\* an insert pass that stops after the first listed item
new_items_first_only(new_item_ids, item_map) ==
    LET present == SelectSeq(new_item_ids, LAMBDA id : id \in DOMAIN item_map)
    IN  [j \in 1..(IF present = <<>> THEN 0 ELSE 1) |-> item_map[present[j]]]

\* The snapshot items a destination receives: ids absent from item_map are skipped.
new_items(new_item_ids, item_map) ==
    LET present == SelectSeq(new_item_ids, LAMBDA id : id \in DOMAIN item_map)
    IN  [j \in 1..Len(present) |-> item_map[present[j]]]

\* fold_nodes over P<Item>: children are folded before the callback sees their parent.
RECURSIVE insert_fold(_, _, _)
insert_fold(items, decls, item_map) ==
    [k \in 1..Len(items) |->
        LET pi == items[k]
        IN  IF IsMod(pi)
            THEN LET m == insert_fold(pi.node.items, decls, item_map)
                 IN  [pi EXCEPT !.node.items =
                        IF pi.id \in DOMAIN decls
                        THEN m \o new_items(decls[pi.id], item_map)
                        ELSE m]
            ELSE pi]

insert_items(k, decls, mi) ==
    [module |-> [items |-> insert_fold(k.module.items, decls, mi.item_map)]]

----------------------------------------------------------------------------
(* Pass 5: insert a new module for the C standard headers.                 *)

extend_crate(k, decls, mi) ==
    IF mi.stdlib_id \in DOMAIN decls
    THEN LET c_std_items == decls[mi.stdlib_id]
             new_item == [id |-> mi.stdlib_id,
                          ident |-> S_stdlib,
                          attrs |-> <<>>,
                          vis |-> "Public",
                          node |-> [kind |-> "Mod",
                                    items |-> [j \in 1..Len(c_std_items) |->
                                                  mi.item_map[c_std_items[j]]]]]
         IN  [module |-> [items |-> Append(k.module.items, new_item)]]
    ELSE k

----------------------------------------------------------------------------
(* Pass 6: rewrite the path segments recorded in new_names.                *)

\* a rename that rewrites the leading segment only
rename_path_head_only(p, new_names) ==
    [j \in 1..Len(p) |->
        IF j = 1 /\ p[j] \in DOMAIN new_names THEN new_names[p[j]] ELSE p[j]]

rename_path(p, new_names) ==
    [j \in 1..Len(p) |-> IF p[j] \in DOMAIN new_names THEN new_names[p[j]] ELSE p[j]]

rename(k, mi) ==
    [module |-> [items |->
        fold_paths(k.module.items,
                   [p \in all_paths(k.module.items) |-> rename_path(p, mi.new_names)])]]

----------------------------------------------------------------------------
(* Pass 7: remove all the translated modules, rebuild item_map.            *)

\* a test that looks for the source-header marker only
is_translated_header_only(pi) == has_source_header(pi.attrs)

is_translated(pi) == has_source_header(pi.attrs) \/ is_std(pi.attrs)

\* items: what the fold returns; kept: the items inserted into item_map, in order.
RECURSIVE remove_fold(_)
remove_fold(items) ==
    IF items = <<>> THEN [items |-> <<>>, kept |-> <<>>]
    ELSE LET h == Head(items)
             sub == IF IsMod(h) THEN remove_fold(h.node.items)
                    ELSE [items |-> <<>>, kept |-> <<>>]
             pi == IF IsMod(h) THEN [h EXCEPT !.node.items = sub.items] ELSE h
             one == IF is_translated(pi) THEN <<>> ELSE <<pi>>
             rest == remove_fold(Tail(items))
         IN  [items |-> one \o rest.items, kept |-> sub.kept \o one \o rest.kept]

remove_translated(k) == [module |-> [items |-> remove_fold(k.module.items).items]]

rebuilt_item_map(k) == item_map_of(remove_fold(k.module.items).kept)

----------------------------------------------------------------------------
(* Pass 8: purge_duplicates, the foreign items.                            *)

\* The modules of item_map that hold an item equivalent to the block pi.
enclosing_mods(pi, item_map) ==
    {m \in {item_map[id].node : id \in {x \in DOMAIN item_map : IsMod(item_map[x])}} :
        \E k \in 1..Len(m.items) : ast_equiv(m.items[k].node, pi.node)}

name_in_module(foreign_item, pi, item_map) ==
    \E m \in enclosing_mods(pi, item_map) : \E k \in 1..Len(m.items) :
        m.items[k].ident = foreign_item.ident

name_in_other_block(foreign_item, pi, item_map, deleted_items) ==
    \E m \in enclosing_mods(pi, item_map) : \E k \in 1..Len(m.items) :
        /\ m.items[k].node.kind = "ForeignMod"
        /\ m.items[k].id # pi.id
        /\ \E j \in 1..Len(m.items[k].node.items) :
              /\ m.items[k].node.items[j].ident = foreign_item.ident
              /\ m.items[k].node.items[j].id \notin deleted_items

\* fm.items.retain over the block pi, deleted_items threaded through.
RECURSIVE retain_foreign(_, _, _, _)
retain_foreign(fitems, pi, item_map, deleted_items) ==
    IF fitems = <<>> THEN [items |-> <<>>, deleted_items |-> deleted_items]
    ELSE LET foreign_item == Head(fitems)
             other == name_in_other_block(foreign_item, pi, item_map, deleted_items)
             result == ~(name_in_module(foreign_item, pi, item_map) \/ other)
             rest == retain_foreign(Tail(fitems), pi, item_map,
                        IF other THEN deleted_items \cup {foreign_item.id}
                        ELSE deleted_items)
         IN  [items |-> (IF result THEN <<foreign_item>> ELSE <<>>) \o rest.items,
              deleted_items |-> rest.deleted_items]

RECURSIVE foreign_fold(_, _, _)
foreign_fold(items, item_map, deleted_items) ==
    IF items = <<>> THEN [items |-> <<>>, deleted_items |-> deleted_items]
    ELSE LET h == Head(items)
             r == CASE h.node.kind = "Mod" ->
                        LET sub == foreign_fold(h.node.items, item_map, deleted_items)
                        IN  [item |-> [h EXCEPT !.node.items = sub.items],
                             deleted_items |-> sub.deleted_items]
                    [] h.node.kind = "ForeignMod" ->
                        LET fm == retain_foreign(h.node.items, h, item_map, deleted_items)
                        IN  [item |-> [h EXCEPT !.node.items = fm.items],
                             deleted_items |-> fm.deleted_items]
                    [] OTHER -> [item |-> h, deleted_items |-> deleted_items]
             rest == foreign_fold(Tail(items), item_map, r.deleted_items)
         IN  [items |-> <<r.item>> \o rest.items, deleted_items |-> rest.deleted_items]

purge_foreign(k, mi) ==
    [module |-> [items |-> foreign_fold(k.module.items, mi.item_map, {}).items]]

----------------------------------------------------------------------------
(* Pass 9: purge_duplicates, the use statements.                           *)

\* The retain closure: a use goes when a sibling Ty, Fn or Struct is named in its prefix.
use_retained(i, cloned_items) ==
    ~ /\ i.node.kind = "Use"
      /\ \E c \in 1..Len(cloned_items) :
            /\ cloned_items[c].node.kind \in {"Ty", "Fn", "Struct"}
            /\ \E s \in 1..Len(i.node.prefix) :
                  i.node.prefix[s] = cloned_items[c].ident

RECURSIVE use_fold(_)
use_fold(items) ==
    [k \in 1..Len(items) |->
        LET pi == items[k]
        IN  IF IsMod(pi)
            THEN LET cloned_items == use_fold(pi.node.items)
                 IN  [pi EXCEPT !.node.items =
                        SelectSeq(cloned_items, LAMBDA i : use_retained(i, cloned_items))]
            ELSE pi]

purge_uses(k) == [module |-> [items |-> use_fold(k.module.items)]]

\* CommandState::next_node_id: an id no node of the crate carries.
RECURSIVE max_id(_)
max_id(items) ==
    IF items = <<>> THEN 0
    ELSE LET h == Head(items)
             inner == CASE h.node.kind = "Mod" -> max_id(h.node.items)
                        [] h.node.kind = "ForeignMod" ->
                             LET ids == {h.node.items[j].id : j \in 1..Len(h.node.items)}
                             IN  IF ids = {} THEN 0
                                 ELSE CHOOSE x \in ids : \A y \in ids : y <= x
                        [] OTHER -> 0
             a == IF inner > h.id THEN inner ELSE h.id
             b == max_id(Tail(items))
         IN  IF a > b THEN a ELSE b

next_node_id(k) == max_id(k.module.items) + 1

----------------------------------------------------------------------------
(* ReorganizeModules::transform as one function of the crate, the session   *)
(* and the order in which decl_destination_mod yields its keys.             *)

\* mod_info after the visit and the match pass
matched_info(k, s) ==
    LET k1 == cleanse(k)
    IN  match_all(module_item_pairs(items_preorder(k1.module.items)), k1,
                  visit_item(k1, ModuleInformation_new(next_node_id(k))), s)

transform(k, s, order) ==
    LET k1 == cleanse(k)
        mi == matched_info(k, s)
        decls == clean_module_items(mi, order)
        k4 == rename(extend_crate(insert_items(k1, decls, mi), decls, mi), mi)
    IN  purge_uses(purge_foreign(remove_translated(k4),
                                 [mi EXCEPT !.item_map = rebuilt_item_map(k4)]))

----------------------------------------------------------------------------
(* The input crates.                                                       *)

MaxKids == 2

Item(ident, attrs, vis, node) ==
    [id |-> 0, ident |-> ident, attrs |-> attrs, vis |-> vis, node |-> node]

Decl(kind, ident, body, paths) ==
    Item(ident, <<>>, "Public", [kind |-> kind, body |-> body, paths |-> paths])

Use(prefix) == Item(S_empty, <<>>, "Inherited", [kind |-> "Use", prefix |-> prefix])

Extern(names) ==
    Item(S_empty, <<>>, "Inherited",
         [kind |-> "ForeignMod",
          items |-> [j \in 1..Len(names) |-> [id |-> 0, ident |-> names[j], body |-> "fn"]]])

Mod(ident, attrs, items) ==
    Item(ident, attrs, "Public", [kind |-> "Mod", items |-> items])

\* #[cfg(not(source_header = "<path>"))]
HeaderAttrs(path) ==
    <<Attribute(<<Delimited(<<TokIdent(S_not),
                              Delimited(<<TokIdent(S_source_header), TokEq,
                                          TokStr(path)>>)>>)>>)>>

\* #[path = "<text>"]: a string literal and no source_header marker
PathAttrs(text) == <<Attribute(<<TokEq, TokStr(text)>>)>>

\* NodeIds as the parser assigns them: unique, in source order.
RECURSIVE number_items(_, _)
number_items(items, next) ==
    IF items = <<>> THEN [items |-> <<>>, next |-> next]
    ELSE LET h == Head(items)
             r == CASE h.node.kind = "Mod" ->
                        LET sub == number_items(h.node.items, next + 1)
                        IN  [item |-> [h EXCEPT !.id = next, !.node.items = sub.items],
                             next |-> sub.next]
                    [] h.node.kind = "ForeignMod" ->
                        [item |-> [h EXCEPT !.id = next,
                                            !.node.items =
                                               [j \in 1..Len(h.node.items) |->
                                                  [h.node.items[j] EXCEPT !.id = next + j]]],
                         next |-> next + Len(h.node.items) + 1]
                    [] OTHER -> [item |-> [h EXCEPT !.id = next], next |-> next + 1]
             rest == number_items(Tail(items), r.next)
         IN  [items |-> <<r.item>> \o rest.items, next |-> rest.next]

Crate(items) == [module |-> [items |-> number_items(items, 1).items]]

Session(path) == [local_crate_source_file |-> path]

SeqsUpTo(S, n) == UNION {[1..m -> S] : m \in 0..n}

\* The names an item declares in the type and in the value namespace of its module.
type_names(i) ==
    IF i.node.kind \in {"Mod", "Struct", "Ty"} THEN <<i.ident>> ELSE <<>>

value_names(i) ==
    CASE i.node.kind \in {"Fn", "Static"} -> <<i.ident>>
      [] i.node.kind = "ForeignMod" -> [j \in 1..Len(i.node.items) |-> i.node.items[j].ident]
      [] OTHER -> <<>>

RECURSIVE flatten(_)
flatten(ss) == IF ss = <<>> THEN <<>> ELSE Head(ss) \o flatten(Tail(ss))

distinct(s) == \A a, b \in 1..Len(s) : a # b => s[a] # s[b]

\* A crate that compiles: no module declares a name twice in one namespace.
RECURSIVE well_formed(_)
well_formed(items) ==
    /\ distinct(flatten([k \in 1..Len(items) |-> type_names(items[k])]))
    /\ distinct(flatten([k \in 1..Len(items) |-> value_names(items[k])]))
    /\ \A k \in 1..Len(items) : IsMod(items[k]) => well_formed(items[k].node.items)

K_buffer_t == Decl("Struct", S_buffer_t, "A", <<>>)
K_widget == Decl("Struct", S_widget, "A", <<>>)
K_size_t == Decl("Ty", S_size_t, "B", <<>>)
K_extern == Extern(<<S_puts>>)
K_static == Decl("Static", S_buffer_t, "C", <<>>)

KidPool == {K_buffer_t, K_widget, K_size_t, K_extern, K_static}

P_foo_h_buffer_t == <<S_foo_h, S_buffer_t>>

OriginalBodies ==
    { <<>>,
      <<K_buffer_t>>,
      <<Use(P_foo_h_buffer_t)>>,
      <<Use(<<S_self>> \o P_foo_h_buffer_t), Decl("Static", S_buffer_t, "C", <<>>)>>,
      <<Decl("Fn", S_puts, "D", <<>>)>>,
      <<Decl("Fn", S_widget, "E", <<P_foo_h_buffer_t>>)>>,
      <<Extern(<<S_puts, S_getc>>)>> }

GeneratedAttrs ==
    {HeaderAttrs(S_foo_h_path), HeaderAttrs(S_stdio_h_path), PathAttrs(S_usr_include)}

HeaderOnlyAttrs == {HeaderAttrs(S_foo_h_path), HeaderAttrs(S_stdio_h_path)}

\* one original container and one generated container, side by side
FlatCrates ==
    { <<Mod(S_foo, <<>>, body), Mod(g, a, kids)>> :
        body \in OriginalBodies, g \in {S_foo_h, S_bar_h},
        a \in GeneratedAttrs, kids \in SeqsUpTo(KidPool, MaxKids) }

\* two original containers, each holding the generated containers of its headers
FileCrates ==
    { <<Mod(S_foo, <<>>, body \o <<Mod(g1, a1, <<k1>>)>>),
        Mod(S_bar, <<>>, <<Mod(g2, a2, <<k2>>)>>)>> :
        body \in {<<>>, <<K_buffer_t>>, <<Decl("Fn", S_widget, "E", <<P_foo_h_buffer_t>>)>>,
                   <<Use(<<S_bar>> \o P_foo_h_buffer_t)>>},
        g1 \in {S_foo_h, S_bar_h}, g2 \in {S_foo_h, S_foo},
        a1 \in HeaderOnlyAttrs, a2 \in HeaderOnlyAttrs,
        k1 \in {K_buffer_t, K_size_t}, k2 \in {K_buffer_t, K_widget, K_size_t} }

\* the original inside the generated container, a generated container inside another
NestedCrates ==
    { <<Mod(S_foo_h, a, <<Mod(S_foo, <<>>, body)>> \o kids)>> :
        body \in {<<>>, <<K_buffer_t>>}, a \in GeneratedAttrs,
        kids \in SeqsUpTo(KidPool, 1) }
    \cup
    { <<Mod(g, a1, <<Mod(S_foo_h, a2, <<K_buffer_t>>), K_size_t>>), Mod(S_foo, <<>>, <<>>)>> :
        g \in {S_bar_h, S_foo_h}, a1 \in GeneratedAttrs, a2 \in GeneratedAttrs }

\* a generated container that holds an import
ImportCrates ==
    { <<Mod(S_foo, <<>>, body), Mod(S_foo_h, a, <<Use(<<S_bar, S_buffer_t>>)>> \o kids)>> :
        body \in {<<>>, <<K_buffer_t>>, <<Use(<<S_bar, S_buffer_t>>)>>},
        a \in HeaderOnlyAttrs, kids \in {<<>>, <<K_size_t>>} }

\* two original containers with foreign blocks, each holding a generated container
\* that declares some of the same foreign functions
ExternCrates ==
    { <<Mod(S_foo, <<>>, <<Extern(<<S_puts, S_getc>>), Mod(S_foo_h, a1, <<Extern(e1)>>)>>),
        Mod(S_bar, <<>>, <<Extern(e2), Mod(S_bar_h, a2, <<Extern(<<S_getc>>)>>)>>)>> :
        a1 \in HeaderOnlyAttrs, a2 \in HeaderOnlyAttrs,
        e1 \in {<<S_puts>>, <<S_getc>>, <<S_puts, S_getc>>},
        e2 \in {<<S_getc, S_widget>>, <<S_widget>>, <<S_getc>>} }

\* two original containers: one named by a substring of the other, the crate's own
\* (empty) name, or stdlib
TwoOriginalCrates ==
    { <<Mod(d[1], <<>>, <<>>), Mod(d[2], <<>>, body), Mod(S_foo_h, a, kids)>> :
        d \in {<<S_fo, S_foo>>, <<S_foo, S_fo>>, <<S_empty, S_foo>>,
               <<S_foo, S_empty>>, <<S_stdlib, S_foo>>},
        body \in {<<>>, <<K_buffer_t>>},
        a \in HeaderOnlyAttrs,
        kids \in {<<K_buffer_t>>, <<K_buffer_t, K_size_t>>} }

\* no generated container at all
OriginalOnlyCrates ==
    { top \o <<Mod(S_foo, <<>>, body)>> :
        top \in {<<>>, <<Use(<<S_foo, S_buffer_t>>)>>, <<Extern(<<S_puts>>)>>},
        body \in OriginalBodies }

HasRootName(items) == \E k \in 1..Len(items) : items[k].ident = S_empty /\ IsMod(items[k])

Inputs ==
    { <<Crate(items), Session(S_src_foo_rs)>> :
        items \in {c \in FlatCrates \cup FileCrates \cup NestedCrates
                         \cup ImportCrates \cup ExternCrates \cup TwoOriginalCrates
                         \cup OriginalOnlyCrates :
                     well_formed(c)} }
    \cup
    { <<Crate(items), Session(S_foo_rs)>> :
        items \in {c \in TwoOriginalCrates : HasRootName(c)} }

----------------------------------------------------------------------------
(* The transform, pass by pass.                                            *)

Init ==
    /\ \E i \in Inputs : input = i[1] /\ sess = i[2]
    /\ krate = input
    /\ mod_info = ModuleInformation_new(0)
    /\ new_module_decls = EmptyMap
    /\ dest_mod_name = EmptyMap
    /\ pc = "cleanse"
    /\ run = "first"

\* lines 68-79: allocate stdlib_id, cleanse the paths, create the ModuleInformation
Cleanse ==
    /\ pc = "cleanse"
    /\ krate' = cleanse(krate)
    /\ mod_info' = ModuleInformation_new(next_node_id(krate))
    /\ pc' = "visit"
    /\ UNCHANGED <<input, sess, new_module_decls, dest_mod_name, run>>

\* line 80: krate.visit(&mut mod_info)
Visit ==
    /\ pc = "visit"
    /\ mod_info' = visit_item(krate, mod_info)
    /\ pc' = "match"
    /\ UNCHANGED <<input, sess, krate, new_module_decls, dest_mod_name, run>>

\* lines 87-106: match_modules for every item of every module
Match ==
    /\ pc = "match"
    /\ mod_info' = match_all(module_item_pairs(items_preorder(krate.module.items)),
                             krate, mod_info, sess)
    /\ dest_mod_name' = tested_names(krate, mod_info, sess)
    /\ pc' = "clean"
    /\ UNCHANGED <<input, sess, krate, new_module_decls, run>>

\* line 111: clean_module_items, decl_destination_mod iterated in any order
Clean ==
    /\ pc = "clean"
    /\ \E order \in iteration_orders(mod_info.decl_destination_mod) :
          new_module_decls' = clean_module_items(mod_info, order)
    /\ pc' = "insert"
    /\ UNCHANGED <<input, sess, krate, mod_info, dest_mod_name, run>>

\* lines 114-136
Insert ==
    /\ pc = "insert"
    /\ krate' = insert_items(krate, new_module_decls, mod_info)
    /\ pc' = "extend"
    /\ UNCHANGED <<input, sess, mod_info, new_module_decls, dest_mod_name, run>>

\* line 139
Extend ==
    /\ pc = "extend"
    /\ krate' = extend_crate(krate, new_module_decls, mod_info)
    /\ pc' = "rename"
    /\ UNCHANGED <<input, sess, mod_info, new_module_decls, dest_mod_name, run>>

\* lines 143-150
Rename ==
    /\ pc = "rename"
    /\ krate' = rename(krate, mod_info)
    /\ pc' = "remove"
    /\ UNCHANGED <<input, sess, mod_info, new_module_decls, dest_mod_name, run>>

\* lines 153-161
Remove ==
    /\ pc = "remove"
    /\ krate' = remove_translated(krate)
    /\ mod_info' = [mod_info EXCEPT !.item_map = rebuilt_item_map(krate)]
    /\ pc' = "purge_foreign"
    /\ UNCHANGED <<input, sess, new_module_decls, dest_mod_name, run>>

\* purge_duplicates, lines 213-271
PurgeForeign ==
    /\ pc = "purge_foreign"
    /\ krate' = purge_foreign(krate, mod_info)
    /\ pc' = "purge_uses"
    /\ UNCHANGED <<input, sess, mod_info, new_module_decls, dest_mod_name, run>>

\* purge_duplicates, lines 284-323, and the return of transform
PurgeUses ==
    /\ pc = "purge_uses"
    /\ krate' = purge_uses(krate)
    /\ pc' = "done"
    /\ UNCHANGED <<input, sess, mod_info, new_module_decls, dest_mod_name, run>>

\* the command is run once more, on the crate the first run returned
Rerun ==
    /\ pc = "done"
    /\ run = "first"
    /\ input' = krate
    /\ mod_info' = ModuleInformation_new(0)
    /\ new_module_decls' = EmptyMap
    /\ dest_mod_name' = EmptyMap
    /\ pc' = "cleanse"
    /\ run' = "again"
    /\ UNCHANGED <<sess, krate>>

Next ==
    \/ Cleanse \/ Visit \/ Match \/ Clean \/ Insert \/ Extend
    \/ Rename \/ Remove \/ PurgeForeign \/ PurgeUses \/ Rerun

Spec == Init /\ [][Next]_vars

----------------------------------------------------------------------------
(* What the properties speak about.                                        *)

\* item_map as line 80 fills it for this run: the snapshot of the cleansed input.
Snapshot == visit_item(cleanse(input), ModuleInformation_new(0)).item_map

\* The containers of a crate, at every depth.
mods_of(k) == SelectSeq(items_preorder(k.module.items), IsMod)

Matched == pc \notin {"cleanse", "visit", "match"}
Planned == Matched /\ pc # "clean"

child_ids(m) == {m.node.items[j].id : j \in 1..Len(m.node.items)}

\* The destination (a snapshot container) already holds an item equivalent to x.
HeldByDestination(x, d) ==
    /\ d \in DOMAIN Snapshot
    /\ \E j \in 1..Len(Snapshot[d].node.items) :
          ast_equiv(Snapshot[d].node.items[j].node, Snapshot[x].node)

----------------------------------------------------------------------------
(* C1: structural-duplicate elimination.  A source item X paired with a    *)
(* destination D of the snapshot whose body already holds an item          *)
(* structurally equivalent to X is not in the insertion list built for D,  *)
(* and no container with D's identity ever receives X.                     *)
C1_DuplicateNeverInserted ==
    Planned =>
        \A x \in DOMAIN mod_info.decl_destination_mod :
            LET d == mod_info.decl_destination_mod[x]
            IN  HeldByDestination(x, d) =>
                    /\ \A j \in 1..Len(new_module_decls[d]) : new_module_decls[d][j] # x
                    /\ \A j \in 1..Len(mods_of(krate)) :
                          mods_of(krate)[j].id = d => x \notin child_ids(mods_of(krate)[j])

\* The transform has returned, a pairing was dropped and its destination is in the output.
C1_Witness ==
    /\ pc = "done"
    /\ \E x \in DOMAIN mod_info.decl_destination_mod :
          LET d == mod_info.decl_destination_mod[x]
          IN  /\ HeldByDestination(x, d)
              /\ \E j \in 1..Len(mods_of(krate)) : mods_of(krate)[j].id = d

----------------------------------------------------------------------------
(* C2: provenance routing.  Every child of a container that is_std         *)
(* classifies as standard library has stdlib_id as its destination, never  *)
(* the identity of a container of the tree, and a rename of the            *)
(* container's identifier to stdlib is recorded.                           *)

\* HashMap::get, "None" for a missing key
get(m, k) == IF k \in DOMAIN m THEN m[k] ELSE "None"

StdContainers == {id \in DOMAIN Snapshot : IsMod(Snapshot[id]) /\ is_std(Snapshot[id].attrs)}

\* The source-header containers that are not standard library, have the identifier
\* ident and hand their items to a candidate: their rename is recorded under ident too.
MatchedHeaderContainers(ident) ==
    {id \in DOMAIN Snapshot :
        /\ IsMod(Snapshot[id])
        /\ Snapshot[id].ident = ident
        /\ ~is_std(Snapshot[id].attrs)
        /\ has_source_header(Snapshot[id].attrs)
        /\ Snapshot[id].node.items # <<>>
        /\ matched(cleanse(input), Snapshot[id], sess) # <<>>}

\* C2 as the specification states it: every child of a standard-library container
\* has destination stdlib_id and the container's identifier is renamed to stdlib.
C2_StdRoutedAndRenamed ==
    Matched =>
        \A m \in StdContainers : \A c \in child_ids(Snapshot[m]) :
            /\ get(mod_info.decl_destination_mod, c) = mod_info.stdlib_id
            /\ get(mod_info.new_names, Snapshot[m].ident) = S_stdlib

\* C2 as the code has it: the destination is stdlib_id; the identifier has a rename recorded,
\* to stdlib unless a matched source-header container that is not standard library
\* carries the same identifier.
C2_StdRouted ==
    Matched =>
        \A m \in StdContainers : \A c \in child_ids(Snapshot[m]) :
            /\ get(mod_info.decl_destination_mod, c) = mod_info.stdlib_id
            /\ get(mod_info.decl_destination_mod, c) \notin DOMAIN Snapshot
            /\ Snapshot[m].ident \in DOMAIN mod_info.new_names
            /\ \/ mod_info.new_names[Snapshot[m].ident] = S_stdlib
               \/ MatchedHeaderContainers(Snapshot[m].ident) # {}

\* A standard-library container with a source header and a child, whose identifier
\* contains the name of an original container, has been matched.
C2_Witness ==
    /\ Matched
    /\ \E m \in StdContainers :
          /\ Snapshot[m].node.items # <<>>
          /\ has_source_header(Snapshot[m].attrs)
          /\ matched(cleanse(input), Snapshot[m], sess) # <<>>

----------------------------------------------------------------------------
(* C3: rename completeness.  In the returned tree no path has a segment    *)
(* that is a key of new_names.                                             *)

Range(f) == {f[x] : x \in DOMAIN f}

segments_of(k) == UNION {Range(p) : p \in all_paths(k.module.items)}

\* C3 as the specification states it: no path segment of the returned tree is a
\* key of new_names.
C3_NoOldSegment ==
    pc = "done" => segments_of(krate) \cap DOMAIN mod_info.new_names = {}

\* C3 as the code has it: a segment of the returned tree that is a key of new_names is also
\* a recorded new name; the rename is one step, it does not follow a new name that
\* is recorded as an old name too.
C3_OldSegmentIsNewName ==
    pc = "done" =>
        segments_of(krate) \cap DOMAIN mod_info.new_names \subseteq Range(mod_info.new_names)

\* A path of the input named a renamed container, not as its first segment, and the
\* transform has returned with that path's item still in the tree.
C3_Witness ==
    /\ pc = "done"
    /\ run = "first"
    /\ \E p \in all_paths(input.module.items) :
          /\ \E j \in 2..Len(p) : p[j] \in DOMAIN mod_info.new_names
          /\ rename_path(cleanse_path(p), mod_info.new_names) \in all_paths(krate.module.items)

----------------------------------------------------------------------------
(* C4: merge of a matched generated container.  For a generated container  *)
(* G that is not standard library and an original container D whose        *)
(* comparison name G's identifier contains: (i) D's body in the output     *)
(* holds every child of G without an equivalent in D's snapshot body,      *)
(* (ii) G is not in the output, (iii) every path segment that named G      *)
(* names D.                                                                *)

HeaderContainers ==
    {id \in DOMAIN Snapshot :
        /\ IsMod(Snapshot[id])
        /\ has_source_header(Snapshot[id].attrs)
        /\ ~is_std(Snapshot[id].attrs)}

\* The original containers that the identifier of g contains the name of, in visit order.
MatchesOf(g) == matched(cleanse(input), Snapshot[g], sess)

paths_of(i) ==
    CASE i.node.kind = "Use" -> <<i.node.prefix>>
      [] i.node.kind \in {"Mod", "ForeignMod"} -> <<>>
      [] OTHER -> i.node.paths

\* The children of the containers of the output that carry the identity d.
OutputBody(d) ==
    UNION {child_ids(mods_of(krate)[j]) :
              j \in {n \in 1..Len(mods_of(krate)) : mods_of(krate)[n].id = d}}

AbsentFromOutput(g) ==
    \A j \in 1..Len(items_preorder(krate.module.items)) :
        items_preorder(krate.module.items)[j].id # g

\* Every segment that was old in the snapshot is now new, item by item.
SegmentsRewritten(old, new) ==
    \A j \in 1..Len(items_preorder(krate.module.items)) :
        LET i == items_preorder(krate.module.items)[j]
        IN  i.id \in DOMAIN Snapshot =>
                \A n \in 1..Len(paths_of(i)) : \A s \in 1..Len(paths_of(i)[n]) :
                    paths_of(Snapshot[i.id])[n][s] = old => paths_of(i)[n][s] = new

\* C4 as the specification states it: every original container D whose comparison
\* name G's identifier contains receives G's children, G is gone, and G's identifier
\* is renamed to D's name.
C4_MergedIntoMatch ==
    pc = "done" =>
        \A g \in HeaderContainers : \A m \in 1..Len(MatchesOf(g)) :
            LET d == MatchesOf(g)[m]
            IN  /\ \A x \in child_ids(Snapshot[g]) :
                      ~HeldByDestination(x, d.id) => x \in OutputBody(d.id)
                /\ AbsentFromOutput(g)
                /\ SegmentsRewritten(Snapshot[g].ident, d.ident)

\* The items the purge of translated modules leaves in place: neither they nor a
\* container around them is header-generated or standard library.
RECURSIVE surviving(_)
surviving(items) ==
    UNION {IF is_translated(items[k]) THEN {}
           ELSE {items[k].id} \cup (IF IsMod(items[k]) THEN surviving(items[k].node.items)
                                    ELSE {}) : k \in 1..Len(items)}

\* x was dropped from the destination's list for an equivalent item that is listed.
Deduplicated(x, d) ==
    \E j \in 1..Len(new_module_decls[d]) :
        /\ new_module_decls[d][j] # x
        /\ ast_equiv(Snapshot[new_module_decls[d][j]].node, Snapshot[x].node)

\* x is an import that names a type alias, function or struct of the destination's body.
DeadImport(x, d) ==
    /\ Snapshot[x].node.kind = "Use"
    /\ \E j \in 1..Len(mods_of(krate)) :
          /\ mods_of(krate)[j].id = d
          /\ \E c \in 1..Len(mods_of(krate)[j].node.items) :
                LET sibling == mods_of(krate)[j].node.items[c]
                IN  /\ sibling.node.kind \in {"Ty", "Fn", "Struct"}
                    /\ sibling.ident \in
                          Range(rename_path(Snapshot[x].node.prefix, mod_info.new_names))

\* C4 as the code has it: D is the last original container, in visit order, whose comparison
\* name G's identifier contains, and neither D nor a container around D is generated
\* or standard library; G has a child.  Then (i) D's body in the output holds every
\* child of G without an equivalent in D's snapshot body, except a child dropped for
\* an equivalent item of D's insertion list, a child that is itself generated or
\* standard library, and an import the dead-import purge removes; (ii) G is not in
\* the output; (iii) every path segment equal to G's identifier carries the rename
\* recorded last for that identifier, which is D's comparison name unless another
\* matched container has G's identifier.
C4_MergedIntoLastMatch ==
    pc = "done" =>
        \A g \in HeaderContainers :
            (MatchesOf(g) # <<>> /\ Snapshot[g].node.items # <<>>) =>
                LET d == MatchesOf(g)[Len(MatchesOf(g))]
                    ident == Snapshot[g].ident
                IN  /\ d.id \in surviving(cleanse(input).module.items) =>
                          \A x \in child_ids(Snapshot[g]) :
                              \/ HeldByDestination(x, d.id)
                              \/ x \in OutputBody(d.id)
                              \/ Deduplicated(x, d.id)
                              \/ is_translated(Snapshot[x])
                              \/ DeadImport(x, d.id)
                    /\ AbsentFromOutput(g)
                    /\ SegmentsRewritten(ident, mod_info.new_names[ident])
                    /\ \/ mod_info.new_names[ident] = candidate_name(d, sess)
                       \/ \E o \in (StdContainers \cup MatchedHeaderContainers(ident)) \ {g} :
                             Snapshot[o].ident = ident /\ Snapshot[o].node.items # <<>>

\* Scenario A has run: a child of G was appended to the surviving D and a path that
\* named G names D.
C4_Witness ==
    /\ pc = "done"
    /\ \E g \in HeaderContainers :
          /\ MatchesOf(g) # <<>>
          /\ LET d == MatchesOf(g)[Len(MatchesOf(g))]
             IN  /\ d.id \in surviving(cleanse(input).module.items)
                 /\ \E x \in child_ids(Snapshot[g]) :
                       ~HeldByDestination(x, d.id) /\ x \in OutputBody(d.id)
                 /\ \E p \in all_paths(input.module.items) :
                       /\ Snapshot[g].ident \in Range(p)
                       /\ rename_path(cleanse_path(p), mod_info.new_names)
                             \in all_paths(krate.module.items)
                       /\ d.ident \in Range(rename_path(cleanse_path(p), mod_info.new_names))

----------------------------------------------------------------------------
(* C5: single stdlib copy.  When two or more standard-library containers   *)
(* each hold a child of one structural-equivalence class, all those        *)
(* children have the destination stdlib_id, the transform creates exactly  *)
(* one container named stdlib at the top level, and as created it holds    *)
(* exactly one item of the class (afterwards never more than one).         *)

\* The children of standard-library containers that are equivalent to c.
StdClass(c) ==
    {x \in UNION {child_ids(Snapshot[m]) : m \in StdContainers} :
        ast_equiv(Snapshot[x].node, Snapshot[c].node)}

\* The children whose class two standard-library containers share.
SharedStdChildren ==
    {c \in UNION {child_ids(Snapshot[m]) : m \in StdContainers} :
        \E m1, m2 \in StdContainers :
            /\ m1 # m2
            /\ c \in child_ids(Snapshot[m1])
            /\ child_ids(Snapshot[m2]) \cap StdClass(c) # {}}

\* The positions of the top level that hold the synthetic container.
StdlibAt ==
    {j \in 1..Len(krate.module.items) : krate.module.items[j].id = mod_info.stdlib_id}

Synthesized == pc \in {"rename", "remove", "purge_foreign", "purge_uses", "done"}

\* C5: the children of a class shared by standard-library containers all go to
\* stdlib_id; one public top-level container named stdlib carries that identity and
\* holds one member of the class when extend_crate has made it, never two later.
C5_SingleStdlibCopy ==
    \A c \in SharedStdChildren :
        /\ Matched =>
              \A x \in StdClass(c) :
                  get(mod_info.decl_destination_mod, x) = mod_info.stdlib_id
        /\ Synthesized =>
              /\ Cardinality(StdlibAt) = 1
              /\ \A j \in StdlibAt :
                    /\ IsMod(krate.module.items[j])
                    /\ krate.module.items[j].ident = S_stdlib
                    /\ krate.module.items[j].vis = "Public"
                    /\ Cardinality(child_ids(krate.module.items[j]) \cap StdClass(c)) <= 1
                    /\ pc = "rename" =>
                          Cardinality(child_ids(krate.module.items[j]) \cap StdClass(c)) = 1
                    /\ pc = "rename" =>
                          Len(krate.module.items[j].node.items)
                             = Cardinality(child_ids(krate.module.items[j]))

\* Scenario B: two standard-library containers hold equivalent children and the
\* synthetic container has been created.
C5_Witness ==
    /\ pc = "rename"
    /\ SharedStdChildren # {}
    /\ StdlibAt # {}

----------------------------------------------------------------------------
(* C6: dead-import purge.  After the transform no container holds an import *)
(* whose path prefix has a segment equal to the identifier of a sibling     *)
(* declaration of the same container, and the purge pass removes imports    *)
(* only: what is not an import is the same before and after the pass.       *)

\* The import at position u of container m names the sibling at position c.
NamesSibling(m, u, c) ==
    /\ u # c
    /\ m.node.items[u].node.kind = "Use"
    /\ \E s \in 1..Len(m.node.items[u].node.prefix) :
          m.node.items[u].node.prefix[s] = m.node.items[c].ident

\* The tree without its imports.
RECURSIVE strip_uses(_)
strip_uses(items) ==
    LET kept == SelectSeq(items, LAMBDA i : i.node.kind # "Use")
    IN  [k \in 1..Len(kept) |->
            IF IsMod(kept[k])
            THEN [kept[k] EXCEPT !.node.items = strip_uses(kept[k].node.items)]
            ELSE kept[k]]

PurgeRemovesImportsOnly ==
    pc = "purge_uses" =>
        strip_uses(purge_uses(krate).module.items) = strip_uses(krate.module.items)

\* C6: no container of the returned tree holds an import naming a sibling, and the
\* dead-import purge leaves everything that is not an import as it was.
C6_NoDeadImport ==
    /\ pc = "done" =>
          \A n \in 1..Len(mods_of(krate)) :
              \A u, c \in 1..Len(mods_of(krate)[n].node.items) :
                  ~NamesSibling(mods_of(krate)[n], u, c)
    /\ PurgeRemovesImportsOnly

----------------------------------------------------------------------------
(* C7: idempotence.  Running the pass sequence on a tree that holds no      *)
(* generated container, in particular on the tree a previous run returned,  *)
(* returns a tree equal to its input.                                       *)

NoGenerated(k) ==
    \A j \in 1..Len(items_preorder(k.module.items)) :
        ~is_translated(items_preorder(k.module.items)[j])

\* C7: a run on a tree with no generated container returns its input.
C7_Idempotent ==
    (pc = "done" /\ NoGenerated(input)) => krate = input

----------------------------------------------------------------------------
(* C8: an unmatched generated container is left in place.  If a generated,  *)
(* non-standard-library container G matches no destination, no pairing is   *)
(* recorded for its children and in the returned tree every child of G is   *)
(* still at its place inside G.                                             *)

Unmatched ==
    {g \in HeaderContainers : MatchesOf(g) = <<>>}

\* The ids of the children of the containers of k that carry the identity g, in order.
BodiesOf(k, g) ==
    {[j \in 1..Len(mods_of(k)[n].node.items) |-> mods_of(k)[n].node.items[j].id] :
        n \in {m \in 1..Len(mods_of(k)) : mods_of(k)[m].id = g}}

\* The plan holds no pairing for a child of an unmatched G.
NoPairingRecorded ==
    \A g \in Unmatched :
        Matched => child_ids(Snapshot[g]) \cap DOMAIN mod_info.decl_destination_mod = {}

\* C8: the children of an unmatched G get no pairing and, in the returned tree, G
\* still holds them in their order.
C8_UnmatchedLeftInPlace ==
    \A g \in Unmatched :
        /\ NoPairingRecorded
        /\ pc = "done" =>
              BodiesOf(krate, g)
                 = {[j \in 1..Len(Snapshot[g].node.items) |-> Snapshot[g].node.items[j].id]}

----------------------------------------------------------------------------
(* C9: determinism.  For a fixed input tree every run returns the same tree: *)
(* the tree returned is the one the transform returns under every order in   *)
(* which the decl_destination_mod hash map can yield its keys.               *)

\* C9: the returned tree does not depend on the iteration order of the plan.
C9_Deterministic ==
    pc = "done" =>
        \A order \in iteration_orders(matched_info(input, sess).decl_destination_mod) :
            krate = transform(input, sess, order)

----------------------------------------------------------------------------
(* C10: root-name substitution.  A destination candidate with an empty      *)
(* identifier is compared under the base file name of the unit being        *)
(* processed, never under the empty string, and the rename recorded on a    *)
(* match with it is to the base file name.                                  *)

\* The component of a path after its last separator.
RECURSIVE base_name(_)
base_name(path) ==
    IF \E k \in 1..Len(path) : path[k] = "/"
    THEN base_name(Tail(path))
    ELSE path

RootCandidates ==
    {id \in DOMAIN dest_mod_name : Snapshot[id].ident = S_empty}

\* C10: an empty-identifier candidate is tested under the base file name, which is
\* not empty, and a match with it renames the matched container to the base file name.
C10_RootNameIsBaseName ==
    Matched =>
        \A id \in RootCandidates :
            /\ dest_mod_name[id] # S_empty
            /\ dest_mod_name[id] = base_name(sess.local_crate_source_file)
            /\ \A x \in DOMAIN mod_info.decl_destination_mod :
                  mod_info.decl_destination_mod[x] = id =>
                      \E g \in HeaderContainers :
                          /\ x \in child_ids(Snapshot[g])
                          /\ get(mod_info.new_names, Snapshot[g].ident)
                                = base_name(sess.local_crate_source_file)

\* The part of C10 that does hold: the name tested is never the empty string.
RootNameNeverEmpty ==
    Matched => \A id \in RootCandidates : dest_mod_name[id] # S_empty

----------------------------------------------------------------------------
(* C11: intra-group deduplication.  Of the structurally equivalent items of *)
(* one destination's list, remove_duplicates keeps one: the specification   *)
(* says the first of them in list order, the code keeps the last.           *)

\* The positions of list whose item has an equivalent item at a position in others.
HasEquivalentAt(list, p, others) ==
    \E q \in others : ast_equiv(Snapshot[list[p]].node, Snapshot[list[q]].node)

KeepFirst(list) ==
    SelectSeq([p \in 1..Len(list) |-> <<p, list[p]>>],
              LAMBDA e : ~HasEquivalentAt(list, e[1], 1..(e[1] - 1)))

KeepLast(list) ==
    SelectSeq([p \in 1..Len(list) |-> <<p, list[p]>>],
              LAMBDA e : ~HasEquivalentAt(list, e[1], (e[1] + 1)..Len(list)))

ids_of(entries) == [j \in 1..Len(entries) |-> entries[j][2]]

\* The stage-1 groups that new_module_decls can have come from: one per iteration
\* order of decl_destination_mod that leads to the lists now held.
Stage1Groups ==
    {clean_loop(order, [mod_info EXCEPT !.item_map = Snapshot], EmptyMap) :
        order \in {o \in iteration_orders(mod_info.decl_destination_mod) :
                      clean_module_items([mod_info EXCEPT !.item_map = Snapshot], o)
                         = new_module_decls}}

\* C11 as the specification states it: of equivalent items of a group the one that
\* appears first is kept and every later one is dropped.
C11_FirstSeenKept ==
    Planned =>
        \A g \in Stage1Groups : \A d \in DOMAIN g :
            new_module_decls[d] = ids_of(KeepFirst(g[d]))

\* C11 as the code has it: of equivalent items of a group the one that appears
\* last is kept and every earlier one is dropped; the other items keep their order.
C11_LastSeenKept ==
    Planned =>
        /\ Stage1Groups # {}
        /\ \A g \in Stage1Groups :
              /\ DOMAIN new_module_decls = DOMAIN g
              /\ \A d \in DOMAIN g :
                    new_module_decls[d] = ids_of(KeepLast(g[d]))

\* A group with two distinct equivalent items has gone through remove_duplicates.
C11_Witness ==
    /\ pc = "insert"
    /\ \E g \in Stage1Groups : \E d \in DOMAIN g :
          \E a, b \in 1..Len(g[d]) : a < b /\ HasEquivalentAt(g[d], a, {b})

----------------------------------------------------------------------------
(* C12: the foreign purge never deletes every copy.  For a container C and  *)
(* a name n declared, at most once per block, by foreign blocks that are    *)
(* children of C and by no other child of C, exactly one foreign            *)
(* declaration named n is left among C's blocks after the purge.            *)

\* The foreign declarations named n in the blocks that are children of m, as
\* <<position of the block, position in the block>>.
Declarations(m, n) ==
    {e \in UNION {{<<b, j>> : j \in 1..Len(m.node.items[b].node.items)} :
                     b \in {c \in 1..Len(m.node.items) :
                               m.node.items[c].node.kind = "ForeignMod"}} :
        m.node.items[e[1]].node.items[e[2]].ident = n}

\* The names the claim is about in container m.
PurgedNames(m) ==
    {n \in UNION {{m.node.items[b].node.items[j].ident :
                      j \in 1..Len(m.node.items[b].node.items)} :
                  b \in {c \in 1..Len(m.node.items) :
                            m.node.items[c].node.kind = "ForeignMod"}} :
        /\ \A c \in 1..Len(m.node.items) : m.node.items[c].ident # n
        /\ \A e1, e2 \in Declarations(m, n) : e1[1] = e2[1] => e1 = e2}

\* C12: the purge applied to the tree the removal pass has left keeps exactly one
\* declaration of every such name in every container.
C12_OneCopyLeft ==
    pc = "purge_foreign" =>
        \A c \in 1..Len(mods_of(krate)) :
            \A n \in PurgedNames(mods_of(krate)[c]) :
                Cardinality(Declarations(mods_of(purge_foreign(krate, mod_info))[c], n)) = 1

\* The purge leaves at most one declaration of such a name.
AtMostOneCopyLeft ==
    pc = "purge_foreign" =>
        \A c \in 1..Len(mods_of(krate)) :
            \A n \in PurgedNames(mods_of(krate)[c]) :
                Cardinality(Declarations(mods_of(purge_foreign(krate, mod_info))[c], n)) <= 1

----------------------------------------------------------------------------
(* C13: no generated container survives.  From the removal pass to the      *)
(* returned tree no item of the tree, at any depth and whether it was there *)
(* from the start or copied in from the snapshot, carries a source-header   *)
(* marker or a standard-library attribute, and every item of the rebuilt    *)
(* item_map carries neither.                                                *)

Removed == pc \in {"purge_foreign", "purge_uses", "done"}

Marked(i) == has_source_header(i.attrs) \/ is_std(i.attrs)

\* C13: after the removal pass nothing marked is in the tree or in item_map.
C13_NoGeneratedSurvives ==
    Removed =>
        /\ \A j \in 1..Len(items_preorder(krate.module.items)) :
              ~Marked(items_preorder(krate.module.items)[j])
        /\ \A id \in DOMAIN mod_info.item_map : ~Marked(mod_info.item_map[id])

\* The removal pass has run on a tree in which a marked container had been copied
\* into a destination that is still in the tree.
C13_Witness ==
    /\ pc = "purge_foreign"
    /\ \E d \in DOMAIN new_module_decls :
          /\ \E n \in 1..Len(mods_of(krate)) : mods_of(krate)[n].id = d
          /\ \E j \in 1..Len(new_module_decls[d]) :
                Marked(Snapshot[new_module_decls[d][j]])

====
